---- MODULE Spec2Model ----
(***************************************************************************)
(* A model of the card document builder (card_document_builder.py), its    *)
(* tag rules (document_builder/tags.py), the corpus readers                *)
(* (doc_loader.py) and the post-retrieval filter (synergy_query.py).       *)
(*                                                                         *)
(* A string of the program that the code takes apart (a name, a text, a    *)
(* line of a file) is a sequence of tokens: a token is a word, the         *)
(* whitespace token " ", the newline token or a punctuation mark.  The     *)
(* empty sequence stands for an empty or an absent string (both are falsy  *)
(* in the code).  A string the code only compares or formats (an expansion *)
(* name, a file name, a tag) is a TLA+ string.                             *)
(***************************************************************************)
EXTENDS Naturals, Sequences, FiniteSets, TLC

VARIABLES
    pc,                    \* position of the running operation
    pokemon_list,          \* expansion_json["pokemon"] of the expansion being built
    idx,                   \* index of the record or input the running loop is at
    walk,                  \* locals of the running _find_base call
    docs,                  \* the documents built so far
    next_uuid,             \* number of identifiers uuid4 has handed out
    compute_synergy_tags,  \* CardDocumentBuilder.compute_synergy_tags
    card,                  \* the supporter, item or tool record being built
    inputs,                \* the input paths of build_from_paths, with their contents
    per_expansion,         \* the --per-expansion flag
    out_name,              \* the --out file name
    files,                 \* the files of the storage directory
    files0,                \* the storage directory as the run found it
    written,               \* the paths save_per_expansion returned
    load_path,             \* the file the reader was given
    loaded,                \* what the reader returned
    nodes,                 \* the nodes the retriever returned
    query,                 \* the arguments of find_synergies
    node_postprocessor,    \* SynergyQueryEngine.node_postprocessor
    survivors,             \* the nodes the post-retrieval filter let through
    tag_input,             \* the arguments of a call of extract_synergy_tags
    tag_result,            \* what the call returned
    slug_input,            \* the argument of a call of _slug
    slug_once,             \* what the call returned
    slug_twice             \* what _slug returned for that result

evoVars   == <<pokemon_list, walk>>
buildVars == <<inputs, per_expansion, out_name, files, files0, written>>
loadVars  == <<load_path, loaded>>
queryVars == <<nodes, query, node_postprocessor, survivors>>

tagVars   == <<card, tag_input, tag_result>>

slugVars  == <<slug_input, slug_once, slug_twice>>

vars == <<pc, idx, docs, next_uuid, compute_synergy_tags,
          evoVars, tagVars, slugVars, buildVars, loadVars, queryVars>>

\* ------------------------------------------------------------------------
\* Bounds of the model
\* ------------------------------------------------------------------------
MaxRecords == 3
MaxWords == 3
MaxInputs == 2
MaxDocs == 3
MaxLines == 2
MaxNodes == 2
MaxSlugLen == 3

\* ------------------------------------------------------------------------
\* Text normalisation (card_document_builder.py, lines 35-38)
\* ------------------------------------------------------------------------
WS == " "
NL == "\n"

\* \s of the regular expressions, and the characters str.strip() removes
IsSpace(tok) == tok \in {WS, NL}

\* re.sub(r"\s+", " ", s): every run of whitespace becomes one space
RECURSIVE CollapseWS(_)
CollapseWS(s) ==
    IF s = <<>> THEN <<>>
    ELSE IF IsSpace(Head(s))
         THEN IF Len(s) > 1 /\ IsSpace(s[2])
              THEN CollapseWS(Tail(s))
              ELSE <<WS>> \o CollapseWS(Tail(s))
         ELSE <<Head(s)>> \o CollapseWS(Tail(s))

RECURSIVE LStrip(_)
LStrip(s) == IF s # <<>> /\ IsSpace(Head(s)) THEN LStrip(Tail(s)) ELSE s

RECURSIVE RStrip(_)
RStrip(s) ==
    IF s # <<>> /\ IsSpace(s[Len(s)]) THEN RStrip(SubSeq(s, 1, Len(s) - 1)) ELSE s

\* str.strip()
Strip(s) == RStrip(LStrip(s))

_norm_name(s) == IF s = <<>> THEN <<>> ELSE Strip(CollapseWS(s))

UNKNOWN == <<"UNKNOWN">>

\* str.lower() on the words of the model
Lower(tok) ==
    CASE tok = "Search"  -> "search"
      [] tok = "Discard" -> "discard"
      [] tok = "Pokemon" -> "pokemon"
      [] tok = "Draw"    -> "draw"
      [] tok = "Leafeon" -> "leafeon"
      [] tok = "LEAFEON" -> "leafeon"
      [] tok = "Eevee"   -> "eevee"
      [] tok = "A3b"     -> "a3b"
      [] tok = "B1"      -> "b1"
      [] tok = ".JSON"   -> ".json"
      [] tok = "Fireball" -> "fireball"
      [] OTHER           -> tok

LowerText(s) == [k \in 1..Len(s) |-> Lower(s[k])]

\* ------------------------------------------------------------------------
\* Regular expressions over tokens (re.search, line 54)
\* ------------------------------------------------------------------------
Punct == { ".", ",", ":" }
Digits == { "1", "2", "3" }

\* a token made of \w characters
IsWordTok(tok) == ~IsSpace(tok) /\ tok \notin Punct

Lit(w)     == [t |-> "lit", w |-> w,  parts |-> <<>>]
WordB      == [t |-> "b",   w |-> "", parts |-> <<>>]
Spaces     == [t |-> "s+",  w |-> "", parts |-> <<>>]
Number     == [t |-> "d+",  w |-> "", parts |-> <<>>]
Cat(parts) == [t |-> "cat", w |-> "", parts |-> parts]
Alt(parts) == [t |-> "alt", w |-> "", parts |-> parts]
Opt(r)     == [t |-> "opt", w |-> "", parts |-> <<r>>]

\* \b at position i: exactly one of the neighbours is a word token
AtWordBoundary(txt, i) ==
    (i > 1 /\ IsWordTok(txt[i - 1])) # (i <= Len(txt) /\ IsWordTok(txt[i]))

\* the positions at which a match of r that starts at position i can end
RECURSIVE MatchEnds(_, _, _)
RECURSIVE CatEnds(_, _, _)
MatchEnds(r, txt, i) ==
    CASE r.t = "lit" -> IF i <= Len(txt) /\ txt[i] = r.w THEN {i + 1} ELSE {}
      [] r.t = "b"   -> IF AtWordBoundary(txt, i) THEN {i} ELSE {}
      [] r.t = "s+"  -> { j \in (i + 1)..(Len(txt) + 1) :
                            \A k \in i..(j - 1) : IsSpace(txt[k]) }
      [] r.t = "d+"  -> IF i <= Len(txt) /\ txt[i] \in Digits THEN {i + 1} ELSE {}
      [] r.t = "cat" -> CatEnds(r.parts, txt, {i})
      [] r.t = "alt" -> UNION { MatchEnds(r.parts[k], txt, i) : k \in 1..Len(r.parts) }
      [] r.t = "opt" -> {i} \cup MatchEnds(r.parts[1], txt, i)

CatEnds(parts, txt, starts) ==
    IF parts = <<>> THEN starts
    ELSE CatEnds(Tail(parts), txt,
                 UNION { MatchEnds(Head(parts), txt, i) : i \in starts })

re_search(r, txt) == \E i \in 1..(Len(txt) + 1) : MatchEnds(r, txt, i) # {}

\* ------------------------------------------------------------------------
\* The tag rules (document_builder/tags.py, lines 7-18)
\* ------------------------------------------------------------------------
Words(ws) == Alt([k \in 1..Len(ws) |-> Lit(ws[k])])

\* \b(search|look up|reveal)\s+(your\s+)?(deck|discard)\b
RuleTutor ==
    Cat(<<WordB,
          Alt(<<Lit("search"), Cat(<<Lit("look"), Lit(WS), Lit("up")>>), Lit("reveal")>>),
          Spaces, Opt(Cat(<<Lit("your"), Spaces>>)),
          Words(<<"deck", "discard">>), WordB>>)

\* \bdraw\b|\bdraw\s+\d+\s+cards?\b
RuleDraw ==
    Alt(<<Cat(<<WordB, Lit("draw"), WordB>>),
          Cat(<<WordB, Lit("draw"), Spaces, Number, Spaces,
                Words(<<"card", "cards">>), WordB>>)>>)

\* \battach\s+(an?\s+)?energy\b|\bextra\s+energy\b|\bmore\s+energy\b|\baccelerat(?:e|ion)\b
RuleEnergyAccel ==
    Alt(<<Cat(<<WordB, Lit("attach"), Spaces,
                Opt(Cat(<<Words(<<"a", "an">>), Spaces>>)), Lit("energy"), WordB>>),
          Cat(<<WordB, Lit("extra"), Spaces, Lit("energy"), WordB>>),
          Cat(<<WordB, Lit("more"), Spaces, Lit("energy"), WordB>>),
          Cat(<<WordB, Words(<<"accelerate", "acceleration">>), WordB>>)>>)

\* \b(heal|remove)\s+(damage|damage\s+counters?)\b
RuleHeal ==
    Cat(<<WordB, Words(<<"heal", "remove">>), Spaces,
          Alt(<<Lit("damage"),
                Cat(<<Lit("damage"), Spaces, Words(<<"counter", "counters">>)>>)>>),
          WordB>>)

\* \b(switch|swap)\s+(your\s+)?(active|benched)\b
RuleSwitch ==
    Cat(<<WordB, Words(<<"switch", "swap">>), Spaces,
          Opt(Cat(<<Lit("your"), Spaces>>)), Words(<<"active", "benched">>), WordB>>)

\* \b(retreat\s+cost|reduce\s+retreat)\b
RuleRetreat ==
    Cat(<<WordB,
          Alt(<<Cat(<<Lit("retreat"), Spaces, Lit("cost")>>),
                Cat(<<Lit("reduce"), Spaces, Lit("retreat")>>)>>),
          WordB>>)

\* \bdiscard\s+(a|an|any|up\s+to|from)\b
RuleDiscard ==
    Cat(<<WordB, Lit("discard"), Spaces,
          Alt(<<Words(<<"a", "an", "any", "from">>),
                Cat(<<Lit("up"), Spaces, Lit("to")>>)>>),
          WordB>>)

\* \b(search|attach)\s+(a\s+)?tool\b|\bpokemon\s+tool\b
RuleTool ==
    Alt(<<Cat(<<WordB, Words(<<"search", "attach">>), Spaces,
                Opt(Cat(<<Lit("a"), Spaces>>)), Lit("tool"), WordB>>),
          Cat(<<WordB, Lit("pokemon"), Spaces, Lit("tool"), WordB>>)>>)

\* \b(evolve|evolution)\b
RuleEvolution == Cat(<<WordB, Words(<<"evolve", "evolution">>), WordB>>)

\* \bresist(s|ance)?\b|\bweakness\b
RuleMatchup ==
    Alt(<<Cat(<<WordB, Words(<<"resist", "resists", "resistance">>), WordB>>),
          Cat(<<WordB, Lit("weakness"), WordB>>)>>)

TAG_RULES ==
    << <<RuleTutor, "tutor">>, <<RuleDraw, "draw">>,
       <<RuleEnergyAccel, "energy_accel">>, <<RuleHeal, "heal">>,
       <<RuleSwitch, "switch">>, <<RuleRetreat, "retreat_reduction">>,
       <<RuleDiscard, "discard">>, <<RuleTool, "tool_synergy">>,
       <<RuleEvolution, "evolution">>, <<RuleMatchup, "type_matchup">> >>

\* TYPE_WORDS (document_builder/tags.py, lines 20-32)
TYPE_WORDS ==
    [ Grass     |-> <<"grass", "leaf", "plants">>,
      Fire      |-> <<"fire", "flame", "burn">>,
      Water     |-> <<"water", "aqua", "rain">>,
      Lightning |-> <<"lightning", "electric", "spark">>,
      Psychic   |-> <<"psychic", "mind", "psi">>,
      Fighting  |-> <<"fighting", "punch", "kick">>,
      Darkness  |-> <<"dark", "shadow">>,
      Metal     |-> <<"metal", "steel">>,
      Fairy     |-> <<"fairy">>,
      Dragon    |-> <<"dragon">>,
      Colorless |-> <<"colorless", "neutral">> ]

\* "alias in text_l", line 60: a substring test, so a word that contains
\* the alias counts; the words of the model that contain an alias
ContainsAlias(tok, alias) ==
    \/ tok = alias
    \/ <<tok, alias>> \in { <<"fireball", "fire">>, <<"training", "rain">> }

AliasInText(alias, text_l) ==
    \E k \in 1..Len(text_l) : ContainsAlias(text_l[k], alias)

\* sorted(tags), line 62: the tags in the order str compares them
TagOrder ==
    <<"discard", "draw", "energy_accel", "evolution", "heal",
      "retreat_reduction", "switch", "tool_synergy", "tutor",
      "type:Fire", "type:Water", "type_kw:Fire", "type_kw:Water",
      "type_matchup">>

\* lines 50-62; types = <<>> stands for None and for the empty list
extract_synergy_tags(text, types) ==
    LET text_l  == LowerText(text)
        ruled   == { TAG_RULES[k][2] :
                       k \in { j \in 1..Len(TAG_RULES) :
                                 re_search(TAG_RULES[j][1], text_l) } }
        typed   == { "type:" \o types[k] : k \in 1..Len(types) }
        aliases(t) == IF t \in DOMAIN TYPE_WORDS THEN TYPE_WORDS[t] ELSE <<>>
        type_kw == { "type_kw:" \o types[k] :
                       k \in { j \in 1..Len(types) :
                                 \E a \in 1..Len(aliases(types[j])) :
                                    AliasInText(aliases(types[j])[a], text_l) } }
        tags    == ruled \cup typed \cup type_kw
    IN  SelectSeq(TagOrder, LAMBDA tg : tg \in tags)


\* ------------------------------------------------------------------------
\* _slug (lines 40-43).  Its argument is taken apart character by
\* character, so here a string is a sequence of characters.  A character
\* outside ASCII is written by its code point.
\* ------------------------------------------------------------------------
\* the characters of [a-z0-9] the model uses
SlugAlnum == { "a", "b", "i", "7" }

\* line 41, str.lower() of one character: an upper-case letter becomes its
\* lower-case letter, U+0130 (capital I with a dot above) becomes the two
\* characters "i" and U+0307 (a combining dot), any other character of the
\* model is left as it is
LowerChar(c) ==
    CASE c = "A"      -> <<"a">>
      [] c = "B"      -> <<"b">>
      [] c = "U+0130" -> <<"i", "U+0307">>
      [] OTHER        -> <<c>>

\* line 41
RECURSIVE StrLower(_)
StrLower(s) ==
    IF s = <<>> THEN <<>> ELSE LowerChar(Head(s)) \o StrLower(Tail(s))

\* a substitution that writes one hyphen for every character it replaces
RECURSIVE HyphenRuns_PerChar(_)
HyphenRuns_PerChar(s) ==
    IF s = <<>> THEN <<>>
    ELSE IF Head(s) \in SlugAlnum
         THEN <<Head(s)>> \o HyphenRuns_PerChar(Tail(s))
         ELSE <<"-">> \o HyphenRuns_PerChar(Tail(s))

\* line 42, re.sub(r"[^a-z0-9]+", "-", s): every run of characters outside
\* [a-z0-9] becomes one hyphen
RECURSIVE HyphenRuns(_)
HyphenRuns(s) ==
    IF s = <<>> THEN <<>>
    ELSE IF Head(s) \in SlugAlnum
         THEN <<Head(s)>> \o HyphenRuns(Tail(s))
         ELSE IF Len(s) > 1 /\ s[2] \notin SlugAlnum
              THEN HyphenRuns(Tail(s))
              ELSE <<"-">> \o HyphenRuns(Tail(s))

\* line 43, s.strip("-")
RECURSIVE StripHyphens(_)
StripHyphens(s) ==
    IF s # <<>> /\ Head(s) = "-" THEN StripHyphens(Tail(s))
    ELSE IF s # <<>> /\ s[Len(s)] = "-"
         THEN StripHyphens(SubSeq(s, 1, Len(s) - 1))
         ELSE s

\* lines 40-43
_slug(s) == StripHyphens(HyphenRuns(StrLower(s)))
\* ------------------------------------------------------------------------
\* Documents (lines 65-72) and their builders (lines 121-211)
\* ------------------------------------------------------------------------
\* str(uuid.uuid4()): an identifier that was not handed out before
uuid4(n) == <<"uuid-" \o ToString(n)>>

StoredDoc(doc_id, text, metadata) ==
    [doc_id |-> doc_id, text |-> text, metadata |-> metadata]

\* "\n".join(lines), lines 167 and 202
RECURSIVE JoinLines(_)
JoinLines(lines) ==
    IF lines = <<>> THEN <<>>
    ELSE IF Len(lines) = 1 THEN lines[1]
    ELSE lines[1] \o <<NL>> \o JoinLines(Tail(lines))

\* f"{k}: {v}"
FieldLine(k, v) == <<k, ":", WS>> \o v

\* lines 121-126
_text_to_doc(text, name, id) ==
    StoredDoc(uuid4(id), text, [doc_type |-> "guide", name |-> name])

\* lines 128-190, for a creature record that carries a name and an
\* evolves_from and none of the other keys (no types, stage, hp, retreat,
\* weakness, abilities, attacks); base and children are the hints of
\* lines 249-250
_pokemon_to_doc(p, expansion, base, children, tags_on, id) ==
    LET name         == _norm_name(IF p.name # <<>> THEN p.name ELSE UNKNOWN)
        evolves_from == _norm_name(p.evolves_from)
        lines        == << FieldLine("card", name),
                           FieldLine("type", <<"pokemon">>),
                           FieldLine("expansion", <<expansion>>) >>
                        \o (IF p.evolves_from # <<>>
                            THEN <<FieldLine("evolves_from", p.evolves_from)>>
                            ELSE <<>>)
        tags         == IF tags_on THEN extract_synergy_tags(<<>>, <<>>) ELSE <<>>
    IN  StoredDoc(uuid4(id), JoinLines(lines),
          [ doc_type       |-> "card",
            card_type      |-> "pokemon",
            name           |-> name,
            expansion      |-> expansion,
            evolves_from   |-> evolves_from,
            evolution_base |-> IF base # <<>> THEN base ELSE name,
            has_evolutions |-> children,
            synergy_tags   |-> tags ])

\* lines 192-211
_named_effect_to_doc(c, expansion, section, tags_on, id) ==
    LET name   == Strip(IF c.name # <<>> THEN c.name ELSE UNKNOWN)
        effect == c.effect
        lines  == << FieldLine("card", name),
                     FieldLine("type", <<section>>),
                     FieldLine("expansion", <<expansion>>) >>
                  \o (IF effect # <<>> THEN <<FieldLine("effect", effect)>> ELSE <<>>)
        tags   == IF tags_on THEN extract_synergy_tags(effect, <<>>) ELSE <<>>
    IN  StoredDoc(uuid4(id), JoinLines(lines),
          [ doc_type     |-> "card",
            card_type    |-> section,
            name         |-> name,
            expansion    |-> expansion,
            synergy_tags |-> tags ])

\* ------------------------------------------------------------------------
\* _expansion_to_docs: the name map, the base walk, the children set
\* ------------------------------------------------------------------------
\* the values of "name" and of "evolves_from" in the records of the model,
\* some with whitespace that _norm_name removes
PokemonRecords ==
    [name         : { <<"a">>, <<"b">>, <<"c">>, <<WS, "a">> },
     evolves_from : { <<>>, <<"a">>, <<"b">>, <<"b", WS>> }]

PokemonLists == UNION { [1..n -> PokemonRecords] : n \in 0..MaxRecords }

Last(S) == CHOOSE m \in S : \A k \in S : k <= m

\* line 218: a dict comprehension, a later record of the same name wins
NameMap(list) ==
    LET named == { k \in 1..Len(list) : list[k].name # <<>> }
        keys  == { _norm_name(list[k].name) : k \in named }
    IN  [ nm \in keys |->
            list[Last({ k \in named : _norm_name(list[k].name) = nm })] ]

\* lines 222-223: the locals of _find_base(n) before the loop
WalkInit(n) ==
    [n |-> n, cur |-> n, seen |-> {}, steps |-> 0, done |-> FALSE, ret |-> <<>>]

\* a walk that returns the name it stopped at instead of the starting name
WalkStep_RetCur(w, name_map) ==
    IF w.cur = <<>> \/ w.cur \in w.seen
    THEN [w EXCEPT !.done = TRUE, !.ret = w.cur]
    ELSE LET seen2 == w.seen \cup {w.cur}
         IN  IF w.cur \notin DOMAIN name_map
             THEN [w EXCEPT !.seen = seen2, !.steps = @ + 1,
                            !.done = TRUE, !.ret = w.cur]
             ELSE LET parent == _norm_name(name_map[w.cur].evolves_from)
                  IN  IF parent = <<>>
                      THEN [w EXCEPT !.seen = seen2, !.steps = @ + 1,
                                     !.done = TRUE, !.ret = w.cur]
                      ELSE [w EXCEPT !.seen = seen2, !.steps = @ + 1,
                                     !.cur = parent]

\* lines 224-233: one evaluation of the loop condition and, when it holds,
\* one iteration of the body; "steps" counts the iterations (lookups)
WalkStep(w, name_map) ==
    IF w.cur = <<>> \/ w.cur \in w.seen
    THEN [w EXCEPT !.done = TRUE, !.ret = w.n]             \* line 233
    ELSE LET seen2 == w.seen \cup {w.cur}                  \* line 225
         IN  IF w.cur \notin DOMAIN name_map               \* lines 226-228
             THEN [w EXCEPT !.seen = seen2, !.steps = @ + 1,
                            !.done = TRUE, !.ret = w.n]    \* break, line 233
             ELSE LET parent == _norm_name(name_map[w.cur].evolves_from)
                  IN  IF parent = <<>>
                      THEN [w EXCEPT !.seen = seen2, !.steps = @ + 1,
                                     !.done = TRUE, !.ret = w.cur] \* line 231
                      ELSE [w EXCEPT !.seen = seen2, !.steps = @ + 1,
                                     !.cur = parent]       \* line 232

RECURSIVE WalkRun(_, _)
WalkRun(w, name_map) ==
    IF w.done THEN w ELSE WalkRun(WalkStep(w, name_map), name_map)

_find_base(n, name_map) == WalkRun(WalkInit(n), name_map).ret

\* lines 236-240
HasChildren(list) ==
    { _norm_name(list[k].evolves_from) :
        k \in { j \in 1..Len(list) : _norm_name(list[j].evolves_from) # <<>> } }

\* lines 243-251: the documents of the creatures, identifiers from id up
PokemonDocs(list, expansion, tags_on, id) ==
    [ k \in 1..Len(list) |->
        _pokemon_to_doc(list[k], expansion,
                        _find_base(_norm_name(list[k].name), NameMap(list)),
                        _norm_name(list[k].name) \in HasChildren(list),
                        tags_on, id + k - 1) ]

\* a loop that takes the tools before the items
SECTIONS_ToolsFirst == <<"supporters", "tools", "items">>

\* line 254
SECTIONS == <<"supporters", "items", "tools">>

\* lines 254-256: the documents of the sections from the k-th on
RECURSIVE SectionDocs(_, _, _, _, _)
SectionDocs(data, k, expansion, tags_on, id) ==
    IF k > Len(SECTIONS) THEN <<>>
    ELSE LET cs == data[SECTIONS[k]]
         IN  [ j \in 1..Len(cs) |->
                 _named_effect_to_doc(cs[j], expansion, SECTIONS[k], tags_on, id + j - 1) ]
             \o SectionDocs(data, k + 1, expansion, tags_on, id + Len(cs))

\* lines 213-258, for a mapping whose four sections are lists of records
_expansion_to_docs(data, expansion, tags_on, id) ==
    PokemonDocs(data.pokemon, expansion, tags_on, id)
    \o SectionDocs(data, 1, expansion, tags_on, id + Len(data.pokemon))

\* ------------------------------------------------------------------------
\* The persisted format: json.dumps and json.loads on one line of a file
\* ------------------------------------------------------------------------
QUOTE == "\""

\* a string that keeps its line breaks as they are
EscapeTok_Raw(tok) == tok

\* what json.dumps writes for one character of a string
EscapeTok(tok) ==
    CASE tok = NL    -> "\\n"
      [] tok = QUOTE -> "\\\""
      [] OTHER       -> tok

UnescapeTok(tok) ==
    CASE tok = "\\n"   -> NL
      [] tok = "\\\"" -> QUOTE
      [] OTHER         -> tok

EncStr(s) == <<QUOTE>> \o [k \in 1..Len(s) |-> EscapeTok(s[k])] \o <<QUOTE>>

RECURSIVE EncStrList(_)
EncStrList(l) ==
    IF l = <<>> THEN <<>>
    ELSE EncStr(<<Head(l)>>)
         \o (IF Len(l) > 1 THEN <<",">> ELSE <<>>) \o EncStrList(Tail(l))

KeyTok(k) == "\"" \o k \o "\":"

\* the keys of a line, and of the metadata the builders write, in dict
\* order, each with the type of its value: "toks" a string the model keeps
\* as tokens, "str" a string it keeps whole, "bool", "strs" a list of
\* strings, "meta" the nested mapping
LineKeys == << <<"doc_id", "toks">>, <<"text", "toks">>, <<"metadata", "meta">> >>

MetaKeys ==
    << <<"doc_type", "str">>, <<"card_type", "str">>, <<"name", "toks">>,
       <<"expansion", "str">>, <<"evolves_from", "toks">>,
       <<"evolution_base", "toks">>, <<"has_evolutions", "bool">>,
       <<"synergy_tags", "strs">> >>

RECURSIVE EncMembers(_, _, _)
EncValue(ty, v) ==
    CASE ty = "toks" -> EncStr(v)
      [] ty = "str"  -> EncStr(<<v>>)
      [] ty = "bool" -> IF v THEN <<"true">> ELSE <<"false">>
      [] ty = "strs" -> <<"[">> \o EncStrList(v) \o <<"]">>
      [] ty = "meta" -> <<"{">> \o EncMembers(v, MetaKeys, TRUE) \o <<"}">>

EncMembers(obj, keys, first) ==
    IF keys = <<>> THEN <<>>
    ELSE IF keys[1][1] \in DOMAIN obj
         THEN (IF first THEN <<>> ELSE <<",", WS>>)
              \o <<KeyTok(keys[1][1]), WS>> \o EncValue(keys[1][2], obj[keys[1][1]])
              \o EncMembers(obj, Tail(keys), FALSE)
         ELSE EncMembers(obj, Tail(keys), first)

\* json.dumps(obj, ensure_ascii=False) for a line object
json_dumps(obj) == <<"{">> \o EncMembers(obj, LineKeys, TRUE) \o <<"}">>

\* --- json.loads -----------------------------------------------------------
Fail == [ok |-> FALSE, val |-> <<>>, next |-> 0]

SkipWS(toks, i) ==
    LET rest == { j \in i..Len(toks) : ~IsSpace(toks[j]) }
    IN  IF rest = {} THEN Len(toks) + 1 ELSE CHOOSE j \in rest : \A k \in rest : j <= k

ParseStr(toks, i) ==
    IF i > Len(toks) \/ toks[i] # QUOTE THEN Fail
    ELSE LET closing == { j \in (i + 1)..Len(toks) : toks[j] = QUOTE }
         IN  IF closing = {} THEN Fail
             ELSE LET j == CHOOSE c \in closing : \A k \in closing : c <= k
                  IN  \* a raw line break inside a string is invalid JSON
                      IF \E k \in (i + 1)..(j - 1) : toks[k] = NL THEN Fail
                      ELSE [ok |-> TRUE,
                            val |-> [k \in 1..(j - i - 1) |-> UnescapeTok(toks[i + k])],
                            next |-> j + 1]

RECURSIVE ParseStrs(_, _, _)
ParseStrs(toks, i, acc) ==
    LET s == ParseStr(toks, SkipWS(toks, i))
    IN  IF ~s.ok \/ Len(s.val) # 1 THEN Fail
        ELSE LET n == SkipWS(toks, s.next)
             IN  IF n > Len(toks) THEN Fail
                 ELSE IF toks[n] = "]"
                      THEN [ok |-> TRUE, val |-> Append(acc, s.val[1]), next |-> n + 1]
                 ELSE IF toks[n] = ","
                      THEN ParseStrs(toks, n + 1, Append(acc, s.val[1]))
                 ELSE Fail

KeyType(keys, tok) ==
    LET hit == { k \in 1..Len(keys) : KeyTok(keys[k][1]) = tok }
    IN  IF hit = {} THEN <<>> ELSE keys[CHOOSE k \in hit : TRUE]

RECURSIVE ParseMembers(_, _, _, _)
RECURSIVE ParseValue(_, _, _)
ParseObject(toks, i, keys) ==
    IF i > Len(toks) \/ toks[i] # "{" THEN Fail
    ELSE LET n == SkipWS(toks, i + 1)
         IN  IF n <= Len(toks) /\ toks[n] = "}"
             THEN [ok |-> TRUE, val |-> <<>>, next |-> n + 1]
             ELSE ParseMembers(toks, n, keys, <<>>)

ParseValue(toks, i, ty) ==
    CASE ty = "toks" -> ParseStr(toks, i)
      [] ty = "str"  -> LET s == ParseStr(toks, i)
                        IN  IF s.ok /\ Len(s.val) = 1
                            THEN [s EXCEPT !.val = s.val[1]] ELSE Fail
      [] ty = "bool" -> IF i <= Len(toks) /\ toks[i] \in {"true", "false"}
                        THEN [ok |-> TRUE, val |-> (toks[i] = "true"), next |-> i + 1]
                        ELSE Fail
      [] ty = "strs" -> IF i > Len(toks) \/ toks[i] # "[" THEN Fail
                        ELSE LET n == SkipWS(toks, i + 1)
                             IN  IF n <= Len(toks) /\ toks[n] = "]"
                                 THEN [ok |-> TRUE, val |-> <<>>, next |-> n + 1]
                                 ELSE ParseStrs(toks, n, <<>>)
      [] ty = "meta" -> ParseObject(toks, i, MetaKeys)

\* "key": value, then a comma and more members, or the closing brace;
\* a repeated key keeps its last value
ParseMembers(toks, i, keys, obj) ==
    IF i > Len(toks) THEN Fail
    ELSE LET kt == KeyType(keys, toks[i])
         IN  IF kt = <<>> THEN Fail
             ELSE LET v == ParseValue(toks, SkipWS(toks, i + 1), kt[2])
                  IN  IF ~v.ok THEN Fail
                      ELSE LET obj2 == (kt[1] :> v.val) @@ obj
                               n    == SkipWS(toks, v.next)
                           IN  IF n > Len(toks) THEN Fail
                               ELSE IF toks[n] = "}"
                                    THEN [ok |-> TRUE, val |-> obj2, next |-> n + 1]
                               ELSE IF toks[n] = ","
                                    THEN ParseMembers(toks, SkipWS(toks, n + 1), keys, obj2)
                               ELSE Fail

\* json.loads(line): the object, or ok = FALSE where it raises
json_loads(line) ==
    LET s == Strip(line)
        r == ParseObject(s, 1, LineKeys)
    IN  IF r.ok /\ r.next = Len(s) + 1 THEN r ELSE Fail

\* ------------------------------------------------------------------------
\* Files of the storage directory
\* ------------------------------------------------------------------------
\* "for line in f": the lines of a text file, each with its line break
RECURSIVE SplitLines(_)
SplitLines(content) ==
    IF content = <<>> THEN <<>>
    ELSE LET brk == { j \in 1..Len(content) : content[j] = NL }
         IN  IF brk = {} THEN <<content>>
             ELSE LET j == CHOOSE b \in brk : \A k \in brk : b <= k
                  IN  <<SubSeq(content, 1, j)>>
                      \o SplitLines(SubSeq(content, j + 1, Len(content)))

\* lines 71-72
to_json(d) == [doc_id |-> d.doc_id, text |-> d.text, metadata |-> d.metadata]

\* lines 99-101 and 112-114: what the loop writes into the opened file
RECURSIVE FileText(_)
FileText(ds) ==
    IF ds = <<>> THEN <<>>
    ELSE json_dumps(to_json(Head(ds))) \o <<NL>> \o FileText(Tail(ds))

\* obj["text"], line 272: a KeyError where the line has no text
LineText(obj) ==
    IF "text" \in DOMAIN obj THEN [ok |-> TRUE, val |-> obj["text"]]
    ELSE [ok |-> FALSE, val |-> <<>>]

\* lines 268-272: the lines from the k-th on; every non-blank line draws an
\* identifier, which the document gets when the line has no doc_id
RECURSIVE LoadLines(_, _, _, _)
LoadLines(lines, k, acc, id) ==
    IF k > Len(lines) THEN [ok |-> TRUE, docs |-> acc, next_id |-> id]
    ELSE IF Strip(lines[k]) = <<>> THEN LoadLines(lines, k + 1, acc, id)
    ELSE LET r == json_loads(lines[k])
         IN  IF ~r.ok THEN [ok |-> FALSE, docs |-> <<>>, next_id |-> id]
             ELSE LET obj == r.val
                      txt == LineText(obj)
                  IN  IF ~txt.ok THEN [ok |-> FALSE, docs |-> <<>>, next_id |-> id + 1]
                      ELSE LoadLines(lines, k + 1,
                             Append(acc,
                               StoredDoc(IF "doc_id" \in DOMAIN obj
                                         THEN obj["doc_id"] ELSE uuid4(id),
                                         txt.val,
                                         IF "metadata" \in DOMAIN obj
                                         THEN obj["metadata"] ELSE <<>>)),
                             id + 1)

\* lines 264-273
load_jsonl(content, id) == LoadLines(SplitLines(content), 1, <<>>, id)

\* doc_loader.py, lines 17-24: a Document takes its text and its metadata
\* from the line and its identifier from the framework
RECURSIVE LoadFileLines(_, _, _, _)
LoadFileLines(lines, k, acc, id) ==
    IF k > Len(lines) THEN [ok |-> TRUE, docs |-> acc, next_id |-> id]
    ELSE IF Strip(lines[k]) = <<>> THEN LoadFileLines(lines, k + 1, acc, id)
    ELSE LET r == json_loads(Strip(lines[k]))
         IN  IF ~r.ok THEN [ok |-> FALSE, docs |-> <<>>, next_id |-> id]
             ELSE LET obj == r.val
                  IN  LoadFileLines(lines, k + 1,
                        Append(acc,
                          StoredDoc(uuid4(id),
                                    IF "text" \in DOMAIN obj THEN obj["text"] ELSE <<>>,
                                    IF "metadata" \in DOMAIN obj
                                    THEN obj["metadata"] ELSE <<>>)),
                        id + 1)

\* doc_loader.py, lines 13-25
load_jsonl_file(content, id) == LoadFileLines(SplitLines(content), 1, <<>>, id)


\* doc_loader.py, line 41: sorted(storage_dir.glob("*.jsonl")).  Every file
\* of the model has the suffix .jsonl; these are the names a run can write,
\* in the order sorted() gives them
SortedPaths(fs) ==
    SelectSeq(<<"all_docs.jsonl", "cards_A3b.jsonl", "cards_B1.jsonl",
                "cards_misc.jsonl">>,
              LAMBDA n : n \in DOMAIN fs)

\* doc_loader.py, lines 41-42: docs.extend(load_jsonl_file(p)) for the paths
\* from the k-th on; an exception of a file ends the whole load.  (r ranges
\* over the one result of the call, so that the call is evaluated once.)
RECURSIVE LoadPaths(_, _, _, _, _)
LoadPaths(fs, paths, k, acc, id) ==
    IF k > Len(paths) THEN [ok |-> TRUE, docs |-> acc, next_id |-> id]
    ELSE CHOOSE res \in
             { IF ~r.ok THEN r
               ELSE LoadPaths(fs, paths, k + 1, acc \o r.docs, r.next_id) :
                 r \in { load_jsonl_file(fs[paths[k]], id) } } : TRUE

\* doc_loader.py, lines 34-43
load_storage_dir(fs, id) == LoadPaths(fs, SortedPaths(fs), 1, <<>>, id)
\* ------------------------------------------------------------------------
\* Values of the variables an operation does not use
\* ------------------------------------------------------------------------
Idle == [n |-> <<>>, cur |-> <<>>, seen |-> {}, steps |-> 0,
         done |-> FALSE, ret |-> <<>>]

NoCard == [name |-> <<>>, effect |-> <<>>]

NoTagInput == [text |-> <<>>, types |-> <<>>]

NotLoaded == [ok |-> FALSE, docs |-> <<>>, next_id |-> 0]

\* expansion=None
NONE == "<None>"

NoQuery == [target_card_name |-> "", expansion |-> NONE,
            include_cross_expansions |-> TRUE]

DEFAULT_OUT == "all_docs.jsonl"

EvoUnused ==
    /\ pokemon_list = <<>> /\ walk = Idle

TagUnused ==
    /\ card = NoCard /\ tag_input = NoTagInput /\ tag_result = <<>>

BuildUnused ==
    /\ inputs = <<>> /\ per_expansion = FALSE /\ out_name = DEFAULT_OUT
    /\ files = <<>> /\ files0 = <<>> /\ written = <<>>

LoadUnused ==
    /\ load_path = "" /\ loaded = NotLoaded

QueryUnused ==
    /\ nodes = <<>> /\ query = NoQuery /\ node_postprocessor = NONE
    /\ survivors = <<>>

SlugUnused ==
    /\ slug_input = <<>> /\ slug_once = <<>> /\ slug_twice = <<>>

\* ------------------------------------------------------------------------
\* The creature loop of _expansion_to_docs, one _find_base iteration a step
\* ------------------------------------------------------------------------
InitEvo ==
    /\ pokemon_list \in PokemonLists
    /\ pc = "loop"
    /\ idx = 1
    /\ walk = Idle
    /\ docs = <<>>
    /\ next_uuid = 0
    /\ compute_synergy_tags = TRUE
    /\ TagUnused /\ BuildUnused /\ LoadUnused /\ QueryUnused
    /\ SlugUnused

\* lines 243-245: the next record, and the call of _find_base
FindBaseCall ==
    /\ pc = "loop"
    /\ idx <= Len(pokemon_list)
    /\ walk' = WalkInit(_norm_name(pokemon_list[idx].name))
    /\ pc' = "walk"
    /\ UNCHANGED <<pokemon_list, idx, docs, next_uuid, compute_synergy_tags, slugVars,
                   tagVars, buildVars, loadVars, queryVars>>

\* lines 224-233
FindBaseIter ==
    /\ pc = "walk"
    /\ ~walk.done
    /\ walk' = WalkStep(walk, NameMap(pokemon_list))
    /\ UNCHANGED <<pc, pokemon_list, idx, docs, next_uuid, compute_synergy_tags, slugVars,
                   tagVars, buildVars, loadVars, queryVars>>

\* lines 247-251
EmitPokemonDoc ==
    /\ pc = "walk"
    /\ walk.done
    /\ docs' = Append(docs,
                 _pokemon_to_doc(pokemon_list[idx], "A3b", walk.ret,
                    _norm_name(pokemon_list[idx].name) \in HasChildren(pokemon_list),
                    compute_synergy_tags, next_uuid))
    /\ next_uuid' = next_uuid + 1
    /\ idx' = idx + 1
    /\ pc' = "loop"
    /\ UNCHANGED <<pokemon_list, walk, compute_synergy_tags, slugVars,
                   tagVars, buildVars, loadVars, queryVars>>

\* line 253: the creature loop is over
EvoDone ==
    /\ pc = "loop"
    /\ idx > Len(pokemon_list)
    /\ pc' = "done"
    /\ UNCHANGED <<pokemon_list, idx, walk, docs, next_uuid, compute_synergy_tags, slugVars,
                   tagVars, buildVars, loadVars, queryVars>>

NextEvo == FindBaseCall \/ FindBaseIter \/ EmitPokemonDoc \/ EvoDone

SpecEvo == InitEvo /\ [][NextEvo]_vars

\* ------------------------------------------------------------------------
\* Tag extraction: supporters, items and tools, and the function by itself
\* ------------------------------------------------------------------------
TagWords == { "Search", "your", "deck", "discard", "a", "1", "draw", "Fireball" }

\* words with one space between them
RECURSIVE Spaced(_)
Spaced(ws) ==
    IF ws = <<>> THEN <<>>
    ELSE IF Len(ws) = 1 THEN ws
    ELSE <<Head(ws), WS>> \o Spaced(Tail(ws))

CyrusEffect ==
    Spaced(<<"Search", "your", "deck", "for", "a", "Pokemon", "and",
             "discard", "1", "card">>) \o <<".">>

Effects ==
    {CyrusEffect}
    \cup { Spaced(ws) : ws \in UNION { [1..n -> TagWords] : n \in 0..MaxWords } }

TypeLists == { <<>>, <<"Fire">>, <<"Water", "Fire">> }

InitTags ==
    /\ card \in [name : { <<>>, <<"Cyrus">> }, effect : Effects]
    /\ tag_input \in [text : {card.effect}, types : TypeLists]
    /\ compute_synergy_tags \in BOOLEAN
    /\ tag_result = <<>>
    /\ pc = "card"
    /\ idx = 1
    /\ docs = <<>>
    /\ next_uuid = 0
    /\ EvoUnused /\ BuildUnused /\ LoadUnused /\ QueryUnused
    /\ SlugUnused

\* line 256: the document of one record of a section
NamedEffectToDoc ==
    /\ pc = "card"
    /\ \E k \in 1..Len(SECTIONS) :
         docs' = <<_named_effect_to_doc(card, "A3b", SECTIONS[k],
                                        compute_synergy_tags, next_uuid)>>
    /\ next_uuid' = next_uuid + 1
    /\ pc' = "done"
    /\ UNCHANGED <<idx, compute_synergy_tags, slugVars, evoVars, tagVars, buildVars,
                   loadVars, queryVars>>

\* lines 50-62: a call with a list of types
ExtractTags ==
    /\ pc = "card"
    /\ tag_result' = extract_synergy_tags(tag_input.text, tag_input.types)
    /\ pc' = "tagged"
    /\ UNCHANGED <<idx, docs, next_uuid, compute_synergy_tags, slugVars, evoVars,
                   card, tag_input, buildVars, loadVars, queryVars>>

NextTags == NamedEffectToDoc \/ ExtractTags

SpecTags == InitTags /\ [][NextTags]_vars

\* ------------------------------------------------------------------------
\* save_jsonl, save_per_expansion and the readers, as steps of a run
\* ------------------------------------------------------------------------
\* f"cards_{exp}.jsonl" with the expansion left out
GroupFileName_Fixed(exp) == "cards_" \o ".jsonl"

\* line 111
GroupFileName(exp) == "cards_" \o exp \o ".jsonl"

\* line 107
GroupKey(d) ==
    IF "expansion" \in DOMAIN d.metadata THEN d.metadata["expansion"] ELSE "misc"

\* lines 105-108: the keys of the dict "groups", in insertion order
RECURSIVE GroupKeys(_, _)
GroupKeys(ds, acc) ==
    IF ds = <<>> THEN acc
    ELSE GroupKeys(Tail(ds),
                   IF \E k \in 1..Len(acc) : acc[k] = GroupKey(Head(ds))
                   THEN acc ELSE Append(acc, GroupKey(Head(ds))))

\* groups[exp], in the order of the appends of line 108
Group(ds, exp) == SelectSeq(ds, LAMBDA d : GroupKey(d) = exp)

\* out.open("w"): the file is created or replaced
WriteFile(fs, name, content) ==
    [ n \in DOMAIN fs \cup {name} |-> IF n = name THEN content ELSE fs[n] ]

\* lines 110-115: the files after the groups from the k-th on are written
RECURSIVE WriteGroups(_, _, _, _)
WriteGroups(fs, ds, keys, k) ==
    IF k > Len(keys) THEN fs
    ELSE WriteGroups(WriteFile(fs, GroupFileName(keys[k]), FileText(Group(ds, keys[k]))),
                     ds, keys, k + 1)

\* line 299
SaveJsonl ==
    /\ pc = "built"
    /\ files' = WriteFile(files, out_name, FileText(docs))
    /\ pc' = "saved"
    /\ UNCHANGED <<idx, docs, next_uuid, compute_synergy_tags, slugVars, evoVars, tagVars,
                   inputs, per_expansion, out_name, files0, written,
                   loadVars, queryVars>>

\* lines 301-303, with the whole of save_per_expansion (lines 104-116)
SavePerExpansion ==
    /\ pc = "saved"
    /\ per_expansion
    /\ LET keys == GroupKeys(docs, <<>>)
       IN  /\ files' = WriteGroups(files, docs, keys, 1)
           /\ written' = [k \in 1..Len(keys) |-> GroupFileName(keys[k])]
    /\ pc' = "exit"
    /\ UNCHANGED <<idx, docs, next_uuid, compute_synergy_tags, slugVars, evoVars, tagVars,
                   inputs, per_expansion, out_name, files0, loadVars, queryVars>>

\* line 301: no --per-expansion
Exit ==
    /\ pc = "saved"
    /\ ~per_expansion
    /\ pc' = "exit"
    /\ UNCHANGED <<idx, docs, next_uuid, compute_synergy_tags, slugVars, evoVars, tagVars,
                   buildVars, loadVars, queryVars>>

\* CardDocumentBuilder.load_jsonl on a file of the storage directory
LoadJsonl ==
    /\ pc \in {"saved", "exit", "stored"}
    /\ \E path \in DOMAIN files :
         /\ load_path' = path
         /\ loaded' = load_jsonl(files[path], next_uuid)
    /\ next_uuid' = loaded'.next_id
    /\ pc' = "loaded"
    /\ UNCHANGED <<idx, docs, compute_synergy_tags, slugVars, evoVars, tagVars,
                   buildVars, queryVars>>

\* doc_loader.load_jsonl_file on a file of the storage directory
LoadJsonlFile ==
    /\ pc \in {"saved", "exit", "stored"}
    /\ \E path \in DOMAIN files :
         /\ load_path' = path
         /\ loaded' = load_jsonl_file(files[path], next_uuid)
    /\ next_uuid' = loaded'.next_id
    /\ pc' = "file_loaded"
    /\ UNCHANGED <<idx, docs, compute_synergy_tags, slugVars, evoVars, tagVars,
                   buildVars, queryVars>>

\* main.py, lines 10-11: load_storage_dir on the storage directory, after
\* the builder has exited
LoadStorageDir ==
    /\ pc = "exit"
    /\ load_path' = "*.jsonl"
    /\ loaded' = load_storage_dir(files, next_uuid)
    /\ next_uuid' = loaded'.next_id
    /\ pc' = "dir_loaded"
    /\ UNCHANGED <<idx, docs, compute_synergy_tags, slugVars, evoVars, tagVars,
                   buildVars, queryVars>>

\* --- documents of any shape, saved and read back --------------------------
\* the documents the builders write: a text with or without a line break and
\* a quote, a metadata with or without an expansion
DocShapes ==
    { [text |-> <<"x">>, metadata |-> <<>>],
      [text |-> <<"x", NL, QUOTE, "y">>, metadata |-> [expansion |-> "A3b"]],
      [text |-> <<"x">>,
       metadata |-> [doc_type |-> "card", expansion |-> "misc",
                     has_evolutions |-> TRUE,
                     synergy_tags |-> <<"draw", "tutor">>]],
      [text |-> <<"x", NL, QUOTE, "y">>,
       metadata |-> [doc_type |-> "guide", name |-> <<"rules">>]] }

AnyDocs ==
    UNION { { [k \in 1..n |-> StoredDoc(<<"d" \o ToString(k)>>, c[k].text, c[k].metadata)] :
                c \in [1..n -> DocShapes] } :
              n \in 0..MaxDocs }

\* the storage directory before the run: empty, or with the files of an
\* earlier run
Storages ==
    { <<>>,
      [n \in {DEFAULT_OUT, GroupFileName("A3b")} |->
         FileText(<<StoredDoc(<<"old">>, <<"stale">>, [expansion |-> "A3b"])>>)] }

InitSave ==
    /\ docs \in AnyDocs
    /\ pc = "built"
    /\ idx = 1
    /\ next_uuid = 0
    /\ compute_synergy_tags = TRUE
    /\ inputs = <<>>
    /\ per_expansion \in BOOLEAN
    /\ out_name = DEFAULT_OUT
    /\ files0 \in Storages
    /\ files = files0
    /\ written = <<>>
    /\ EvoUnused /\ TagUnused /\ LoadUnused /\ QueryUnused
    /\ SlugUnused

NextSave == SaveJsonl \/ SavePerExpansion \/ Exit \/ LoadJsonl \/ LoadJsonlFile

SpecSave == InitSave /\ [][NextSave]_vars

\* --- the storage directory after a run, read by load_storage_dir ----------
InitStore ==
    /\ docs \in AnyDocs
    /\ pc = "built"
    /\ idx = 1
    /\ next_uuid = 0
    /\ compute_synergy_tags = TRUE
    /\ inputs = <<>>
    /\ per_expansion \in BOOLEAN
    /\ out_name \in {DEFAULT_OUT, GroupFileName("A3b")}
    /\ files0 \in Storages
    /\ files = files0
    /\ written = <<>>
    /\ EvoUnused /\ TagUnused /\ LoadUnused /\ QueryUnused
    /\ SlugUnused

NextStore == SaveJsonl \/ SavePerExpansion \/ Exit \/ LoadStorageDir

SpecStore == InitStore /\ [][NextStore]_vars

\* --- a corpus file of any content, read back -------------------------------
LineObjects ==
    { [doc_id |-> <<"d1">>, text |-> <<"x">>, metadata |-> [expansion |-> "A3b"]],
      [doc_id |-> <<"d1">>, text |-> <<"x">>],
      [doc_id |-> <<"d1">>, metadata |-> [expansion |-> "A3b"]],
      [text |-> <<"x">>, metadata |-> [expansion |-> "A3b"]],
      [doc_id |-> <<"d1">>],
      [text |-> <<"x">>],
      [metadata |-> [expansion |-> "A3b"]],
      <<>> }

\* the lines of a corpus file, without their line breaks: objects with or
\* without each of the three keys, blank lines, and a line that is no JSON
FileLines ==
    { json_dumps(obj) : obj \in LineObjects }
    \cup { <<>>, <<WS>>, <<"{", KeyTok("text")>> }

RECURSIVE WithBreaks(_)
WithBreaks(ls) ==
    IF ls = <<>> THEN <<>> ELSE Head(ls) \o <<NL>> \o WithBreaks(Tail(ls))

CORPUS == "corpus.jsonl"

InitLoad ==
    /\ \E ls \in UNION { [1..n -> FileLines] : n \in 0..MaxLines } :
         files0 = [n \in {CORPUS} |-> WithBreaks(ls)]
    /\ files = files0
    /\ pc = "stored"
    /\ idx = 1
    /\ docs = <<>>
    /\ next_uuid = 0
    /\ compute_synergy_tags = TRUE
    /\ inputs = <<>>
    /\ per_expansion = FALSE
    /\ out_name = DEFAULT_OUT
    /\ written = <<>>
    /\ EvoUnused /\ TagUnused /\ LoadUnused /\ QueryUnused
    /\ SlugUnused

NextLoad == LoadJsonl \/ LoadJsonlFile

SpecLoad == InitLoad /\ [][NextLoad]_vars

\* ------------------------------------------------------------------------
\* A run of the builder (lines 297-303): build_from_paths, then the saves
\* ------------------------------------------------------------------------
\* An input file.  kind says what its content is: "text" a free text (the
\* field text), "mapping" a JSON object whose sections are lists of records
\* (the field data; a section that is missing, null or empty is an empty
\* list here), "unparsable" no JSON at all, "array" a JSON array instead of
\* the object, "bad_section" an object whose "supporters" is a number,
\* "bad_record" an object whose "items" list holds a number instead of a
\* record.
NoSections ==
    [pokemon |-> <<>>, supporters |-> <<>>, items |-> <<>>, tools |-> <<>>]

SrcRules ==
    [suffix |-> ".txt", stem |-> "rules", kind |-> "text",
     text |-> <<"Draw", WS, "1", NL, "card", ".">>, data |-> NoSections]

SrcA3b ==
    [suffix |-> ".json", stem |-> "A3b", kind |-> "mapping", text |-> <<>>,
     data |->
       [pokemon    |-> << [name |-> <<"Eevee">>, evolves_from |-> <<>>],
                          [name |-> <<"Leafeon">>, evolves_from |-> <<"Eevee">>] >>,
        supporters |-> << [name |-> <<"Cyrus">>, effect |-> CyrusEffect] >>,
        items      |-> << [name |-> <<"Potion">>,
                           effect |-> Spaced(<<"heal", "damage">>)],
                          [name |-> <<WS, "Ball">>, effect |-> <<>>] >>,
        tools      |-> << [name |-> <<"Cape">>,
                           effect |-> Spaced(<<"attach", "a", "tool">>)] >>]]

SrcB1 ==
    [suffix |-> ".JSON", stem |-> "B1", kind |-> "mapping", text |-> <<>>,
     data |->
       [pokemon    |-> <<>>,
        supporters |-> <<>>,
        items      |-> << [name |-> <<>>, effect |-> <<"draw">>] >>,
        tools      |-> << [name |-> <<"Cape">>,
                           effect |-> Spaced(<<"attach", "a", "tool">>)],
                          [name |-> <<WS, "Ball">>, effect |-> <<>>] >>]]

SrcUnparsable ==
    [suffix |-> ".json", stem |-> "C1", kind |-> "unparsable", text |-> <<>>,
     data |-> NoSections]

SrcArray ==
    [suffix |-> ".json", stem |-> "C2", kind |-> "array", text |-> <<>>,
     data |-> NoSections]

SrcBadSection ==
    [suffix |-> ".json", stem |-> "C3", kind |-> "bad_section", text |-> <<>>,
     data |-> [pokemon    |-> << [name |-> <<"Eevee">>, evolves_from |-> <<>>] >>,
               supporters |-> <<>>, items |-> <<>>, tools |-> <<>>]]

SrcBadRecord ==
    [suffix |-> ".json", stem |-> "C4", kind |-> "bad_record", text |-> <<>>,
     data |-> [pokemon    |-> << [name |-> <<"Eevee">>, evolves_from |-> <<>>] >>,
               supporters |-> << [name |-> <<"Cyrus">>, effect |-> CyrusEffect] >>,
               items |-> <<>>, tools |-> <<>>]]

Sources ==
    { SrcRules, SrcA3b, SrcB1, SrcUnparsable, SrcArray, SrcBadSection, SrcBadRecord }

\* line 87
IsJson(src) == Lower(src.suffix) = ".json"

\* Where the iteration of lines 87-89 raises: json.loads on a text that is no
\* JSON (line 88), .get on a list (line 215), the loop of line 255 over a
\* number, .get on a number (line 193)
Raises(src) ==
    IsJson(src) /\ src.kind \in {"unparsable", "array", "bad_section", "bad_record"}

\* a run that goes on to the saves after an error of the build
AfterBuildError_Swallowed == "built"

\* line 298: nothing catches an exception of build_from_paths
AfterBuildError == "crashed"

InitBuild ==
    /\ inputs \in UNION { [1..n -> Sources] : n \in 1..MaxInputs }
    /\ pc = "build"
    /\ idx = 1
    /\ docs = <<>>
    /\ next_uuid = 0
    /\ compute_synergy_tags \in BOOLEAN
    /\ per_expansion \in BOOLEAN
    /\ out_name \in {DEFAULT_OUT, GroupFileName("A3b")}
    /\ files0 \in Storages
    /\ files = files0
    /\ written = <<>>
    /\ EvoUnused /\ TagUnused /\ LoadUnused /\ QueryUnused
    /\ SlugUnused

\* lines 86-94: the iteration of the loop for one input path
BuildFromPath ==
    /\ pc = "build"
    /\ idx <= Len(inputs)
    /\ LET src == inputs[idx]
       IN  IF Raises(src)
           THEN /\ pc' = AfterBuildError
                /\ UNCHANGED <<idx, docs, next_uuid>>
           ELSE /\ docs' = docs \o
                     (IF IsJson(src)
                      THEN _expansion_to_docs(src.data, src.stem,
                                              compute_synergy_tags, next_uuid)
                      ELSE <<_text_to_doc(src.text, <<src.stem>>, next_uuid)>>)
                /\ next_uuid' = next_uuid + (Len(docs') - Len(docs))
                /\ idx' = idx + 1
                /\ pc' = pc
    /\ UNCHANGED <<compute_synergy_tags, slugVars, evoVars, tagVars, buildVars,
                   loadVars, queryVars>>

\* line 95
BuildReturn ==
    /\ pc = "build"
    /\ idx > Len(inputs)
    /\ pc' = "built"
    /\ UNCHANGED <<idx, docs, next_uuid, compute_synergy_tags, slugVars, evoVars, tagVars,
                   buildVars, loadVars, queryVars>>

NextBuild ==
    BuildFromPath \/ BuildReturn \/ SaveJsonl \/ SavePerExpansion \/ Exit

SpecBuild == InitBuild /\ [][NextBuild]_vars

\* ------------------------------------------------------------------------
\* The post-retrieval filter of find_synergies (synergy_query.py)
\* ------------------------------------------------------------------------
MdGet(md, k, default) == IF k \in DOMAIN md THEN md[k] ELSE default

\* the value of a key the metadata does not have
ABSENT == "<absent>"

\* lines 109-127: _filter applied to the nodes from the k-th on
RECURSIVE FilterFrom(_, _, _, _)
FilterFrom(ns, k, q, acc) ==
    IF k > Len(ns) THEN acc
    ELSE LET n  == ns[k]
             md == n.md
             doc_type == MdGet(md, "doc_type", ABSENT)
             same_name ==
                 Lower(MdGet(md, "name", "")) = Lower(q.target_card_name)
             same_exp ==
                 q.expansion = NONE \/ MdGet(md, "expansion", ABSENT) = q.expansion
             cross ==
                 /\ ~q.include_cross_expansions
                 /\ q.expansion \notin {NONE, ""}
                 /\ MdGet(md, "expansion", ABSENT) # q.expansion
             keep ==
                 /\ doc_type \in {"card", "guide"}
                 /\ doc_type = "card" => ~(same_name /\ same_exp) /\ ~cross
         IN  FilterFrom(ns, k + 1, q, IF keep THEN Append(acc, n) ELSE acc)

_default_post_filter(ns, q) == FilterFrom(ns, 1, q, <<>>)

NodeMetadatas ==
    { [doc_type |-> "card", name |-> "Leafeon", expansion |-> "A3b"],
      [doc_type |-> "card", name |-> "Eevee", expansion |-> "A3b"],
      [doc_type |-> "card", name |-> "Leafeon", expansion |-> "B1"],
      [doc_type |-> "guide", name |-> "rules"],
      [doc_type |-> "note", name |-> "Leafeon", expansion |-> "A3b"],
      <<>> }

\* the retrieved nodes, each with its rank
NodeLists ==
    UNION { { [k \in 1..n |-> [rank |-> k, md |-> mds[k]]] :
                mds \in [1..n -> NodeMetadatas] } : n \in 0..MaxNodes }

Queries ==
    [target_card_name : {"Leafeon", "LEAFEON"},
     expansion : {NONE, "A3b", "a3b"},
     include_cross_expansions : BOOLEAN]

\* what a postprocessor of the caller may return: the nodes it keeps
SubLists(ns) ==
    { SelectSeq(ns, LAMBDA n : n.rank \in S) : S \in SUBSET (1..Len(ns)) }

InitQuery ==
    /\ nodes \in NodeLists
    /\ query \in Queries
    /\ node_postprocessor \in {NONE, "custom"}
    /\ survivors = <<>>
    /\ pc = "retrieved"
    /\ idx = 1
    /\ docs = <<>>
    /\ next_uuid = 0
    /\ compute_synergy_tags = TRUE
    /\ EvoUnused /\ TagUnused /\ BuildUnused /\ LoadUnused
    /\ SlugUnused

\* lines 167-170, the default filter on the retrieved nodes
DefaultPostFilter ==
    /\ pc = "retrieved"
    /\ node_postprocessor = NONE
    /\ survivors' = _default_post_filter(nodes, query)
    /\ pc' = "filtered"
    /\ UNCHANGED <<idx, docs, next_uuid, compute_synergy_tags, slugVars, evoVars, tagVars,
                   buildVars, loadVars, nodes, query, node_postprocessor>>

\* lines 167-170, the postprocessor the engine was constructed with
CustomPostFilter ==
    /\ pc = "retrieved"
    /\ node_postprocessor # NONE
    /\ survivors' \in SubLists(nodes)
    /\ pc' = "filtered"
    /\ UNCHANGED <<idx, docs, next_uuid, compute_synergy_tags, slugVars, evoVars, tagVars,
                   buildVars, loadVars, nodes, query, node_postprocessor>>

NextQuery == DefaultPostFilter \/ CustomPostFilter

SpecQuery == InitQuery /\ [][NextQuery]_vars


\* --- _slug on any string, and on its own result ----------------------------
\* the characters of the arguments: lower-case and upper-case letters, a
\* digit, the hyphen itself, whitespace, and a letter whose lower-case form
\* is two characters
SlugInputs ==
    UNION { [1..n -> { "a", "B", "7", "-", WS, "U+0130" }] : n \in 0..MaxSlugLen }

InitSlug ==
    /\ slug_input \in SlugInputs
    /\ slug_once = <<>>
    /\ slug_twice = <<>>
    /\ pc = "slug"
    /\ idx = 1
    /\ docs = <<>>
    /\ next_uuid = 0
    /\ compute_synergy_tags = TRUE
    /\ EvoUnused /\ TagUnused /\ BuildUnused /\ LoadUnused /\ QueryUnused

\* _slug(s)
Slug ==
    /\ pc = "slug"
    /\ slug_once' = _slug(slug_input)
    /\ pc' = "slugged"
    /\ UNCHANGED <<idx, docs, next_uuid, compute_synergy_tags, slug_input, slug_twice,
                   evoVars, tagVars, buildVars, loadVars, queryVars>>

\* _slug(_slug(s))
SlugAgain ==
    /\ pc = "slugged"
    /\ slug_twice' = _slug(slug_once)
    /\ pc' = "reslugged"
    /\ UNCHANGED <<idx, docs, next_uuid, compute_synergy_tags, slug_input, slug_once,
                   evoVars, tagVars, buildVars, loadVars, queryVars>>

NextSlug == Slug \/ SlugAgain

SpecSlug == InitSlug /\ [][NextSlug]_vars
\* ------------------------------------------------------------------------
\* Evolution chains, stated on the records themselves
\* ------------------------------------------------------------------------
NameOf(list, k) == _norm_name(list[k].name)

ParentNameOf(list, k) == _norm_name(list[k].evolves_from)

\* every record is named and no two records share a normalized name
WellFormed(list) ==
    /\ \A k \in 1..Len(list) : NameOf(list, k) # <<>>
    /\ \A j, k \in 1..Len(list) : NameOf(list, j) = NameOf(list, k) => j = k

\* the records a record names as its parent
ParentsOf(list, k) ==
    { j \in 1..Len(list) :
        /\ ParentNameOf(list, k) # <<>>
        /\ NameOf(list, j) = ParentNameOf(list, k) }

RECURSIVE AncestorsWithin(_, _, _)
AncestorsWithin(list, S, d) ==
    IF d = 0 THEN {}
    ELSE LET P == UNION { ParentsOf(list, k) : k \in S }
         IN  P \cup AncestorsWithin(list, P, d - 1)

Ancestors(list, k) == AncestorsWithin(list, {k}, Len(list))

HasCycle(list) == \E k \in 1..Len(list) : k \in Ancestors(list, k)

\* the root ancestor of record k of a well-formed list without a cycle
RECURSIVE RootName(_, _)
RootName(list, k) ==
    IF ParentsOf(list, k) = {} THEN NameOf(list, k)
    ELSE RootName(list, CHOOSE j \in ParentsOf(list, k) : TRUE)

\* the chain the name lookup follows from nm goes on for d more links
RECURSIVE ChainGoesOn(_, _, _)
ChainGoesOn(name_map, nm, d) ==
    IF d = 0 THEN TRUE
    ELSE /\ nm \in DOMAIN name_map
         /\ _norm_name(name_map[nm].evolves_from) # <<>>
         /\ ChainGoesOn(name_map, _norm_name(name_map[nm].evolves_from), d - 1)

\* a chain longer than the number of names repeats a name
LeadsIntoCycle(name_map, nm) ==
    /\ nm # <<>>
    /\ ChainGoesOn(name_map, nm, Cardinality(DOMAIN name_map) + 1)

\* ------------------------------------------------------------------------
\* Claims about the evolution chain resolver
\* ------------------------------------------------------------------------

\* C1: in a list without a cycle the evolution base of every creature is
\* the root ancestor of its chain, a record whose evolves_from names no
\* record of the list being a root.
C1_BaseIsRootAncestor ==
    (WellFormed(pokemon_list) /\ ~HasCycle(pokemon_list)) =>
        \A k \in 1..Len(docs) :
            docs[k].metadata.evolution_base = RootName(pokemon_list, k)

C3_HasEvolutionsIffOtherChild ==
    \A k \in 1..Len(docs) :
        docs[k].metadata.has_evolutions <=>
            \E j \in (1..Len(pokemon_list)) \ {k} :
                /\ ParentNameOf(pokemon_list, j) # <<>>
                /\ ParentNameOf(pokemon_list, j) = NameOf(pokemon_list, k)

\* ------------------------------------------------------------------------
\* Claims about the tag rules
\* ------------------------------------------------------------------------
TagsOf(d) == { d.metadata.synergy_tags[k] : k \in 1..Len(d.metadata.synergy_tags) }

\* C10: with tag computation enabled, the document of the supporter Cyrus
\* ("Search your deck for a Pokemon and discard 1 card.") carries both the
\* tag tutor and the tag discard.
C10_CyrusTutorAndDiscard ==
    \A k \in 1..Len(docs) :
        (compute_synergy_tags /\ card.name = <<"Cyrus">> /\ card.effect = CyrusEffect) =>
            {"tutor", "discard"} \subseteq TagsOf(docs[k])

\* ------------------------------------------------------------------------
\* Claims about persistence
\* ------------------------------------------------------------------------
IndicesOf(s) == 1..Len(s)

RangeOf(s) == { s[k] : k \in IndicesOf(s) }

\* the group a document belongs to
ExpansionOrMisc(d) ==
    IF "expansion" \in DOMAIN d.metadata THEN d.metadata["expansion"] ELSE "misc"

\* the documents a file of the storage directory holds
DocsIn(path) == load_jsonl(files[path], 0)

\* C4: save_per_expansion writes exactly one file per distinct group key
\* (the expansion, or "misc" when the key is absent); every document is in
\* the file of its own group and in no other; within a file the documents
\* keep the order of the input sequence.
C4_OneFilePerGroupInOrder ==
    (pc = "exit" /\ per_expansion) =>
        LET keys == { ExpansionOrMisc(docs[k]) : k \in IndicesOf(docs) }
        IN  /\ Len(written) = Cardinality(keys)
            /\ Cardinality(RangeOf(written)) = Len(written)
            /\ RangeOf(written) \subseteq DOMAIN files
            /\ \A g \in keys :
                 \E w \in RangeOf(written) :
                    /\ DocsIn(w).ok
                    /\ DocsIn(w).docs =
                         SelectSeq(docs, LAMBDA d : ExpansionOrMisc(d) = g)

\* three documents of two groups, one of them "misc" for want of the key,
\* have been written, those of one group around that of the other
C4_Witness ==
    /\ pc = "exit"
    /\ per_expansion
    /\ Len(docs) = 3
    /\ ExpansionOrMisc(docs[1]) = ExpansionOrMisc(docs[3])
    /\ ExpansionOrMisc(docs[1]) # ExpansionOrMisc(docs[2])
    /\ docs[1] # docs[3]
    /\ \E k \in 1..3 : "expansion" \notin DOMAIN docs[k].metadata
    /\ Len(written) = 2

\* C5: load_jsonl on the file save_jsonl wrote returns the documents that
\* were saved, in the same order, with equal text, metadata and doc_id.
C5_RoundTrip ==
    (pc = "loaded" /\ load_path = out_name) =>
        /\ loaded.ok
        /\ Len(loaded.docs) = Len(docs)
        /\ \A k \in IndicesOf(docs) :
             /\ loaded.docs[k].text = docs[k].text
             /\ loaded.docs[k].metadata = docs[k].metadata
             /\ loaded.docs[k].doc_id = docs[k].doc_id

\* documents whose texts hold a line break and a quote were read back
C5_Witness ==
    /\ pc = "loaded"
    /\ load_path = out_name
    /\ Len(docs) >= 2
    /\ \E k \in IndicesOf(docs) : NL \in RangeOf(docs[k].text)
    /\ \E k \in IndicesOf(docs) : docs[k].metadata = <<>>
    /\ loaded.ok
    /\ Len(loaded.docs) = Len(docs)

\* the non-blank lines of the file that was read
NonBlankLines ==
    SelectSeq(SplitLines(files[load_path]), LAMBDA l : Strip(l) # <<>>)

\* C8: for both readers of the persisted format, a non-blank line without
\* "text" makes the load fail; otherwise every non-blank line yields one
\* document, with a synthesized id where the line has no doc_id and an
\* empty mapping where it has no metadata, and blank lines yield none.
C8_MissingTextIsFatal ==
    (pc \in {"loaded", "file_loaded"}) =>
        LET ls == NonBlankLines
        IN  /\ (\E k \in IndicesOf(ls) :
                  json_loads(ls[k]).ok /\ "text" \notin DOMAIN json_loads(ls[k]).val)
               => ~loaded.ok
            /\ loaded.ok =>
                 /\ Len(loaded.docs) = Len(ls)
                 /\ \A k \in IndicesOf(ls) :
                      LET obj == json_loads(ls[k]).val
                      IN  /\ "metadata" \notin DOMAIN obj
                               => loaded.docs[k].metadata = <<>>
                          /\ "doc_id" \notin DOMAIN obj
                               => \E n \in 0..next_uuid : loaded.docs[k].doc_id = uuid4(n)

\* ------------------------------------------------------------------------
\* Claims about a run of the builder
\* ------------------------------------------------------------------------
\* what identifies the record a document was built from
DocKey(d) ==
    << d.metadata["doc_type"],
       IF "card_type" \in DOMAIN d.metadata THEN d.metadata["card_type"] ELSE "",
       d.metadata["name"],
       IF "expansion" \in DOMAIN d.metadata THEN d.metadata["expansion"] ELSE "" >>

DisplayName(raw) == Strip(CollapseWS(IF raw = <<>> THEN UNKNOWN ELSE raw))

CardKeys(records, kind, stem) ==
    [k \in IndicesOf(records) |-> <<"card", kind, DisplayName(records[k].name), stem>>]

\* the records of the first n inputs, in the order the documents are due
RECURSIVE ExpectedKeys(_, _)
ExpectedKeys(srcs, n) ==
    IF n = 0 THEN <<>>
    ELSE ExpectedKeys(srcs, n - 1) \o
         (IF srcs[n].kind = "text" THEN << <<"guide", "", <<srcs[n].stem>>, "">> >>
          ELSE CardKeys(srcs[n].data.pokemon, "pokemon", srcs[n].stem)
               \o CardKeys(srcs[n].data.supporters, "supporters", srcs[n].stem)
               \o CardKeys(srcs[n].data.items, "items", srcs[n].stem)
               \o CardKeys(srcs[n].data.tools, "tools", srcs[n].stem))

\* C6: build_from_paths returns, in input order, one guide document per
\* free-text source and, per expansion, one document per creature, then
\* per supporter, then per item, then per tool, each in source order.
C6_DocsInSourceOrder ==
    (pc \in {"build", "built", "saved", "exit"} /\ inputs # <<>>) =>
        [k \in IndicesOf(docs) |-> DocKey(docs[k])] = ExpectedKeys(inputs, idx - 1)

\* two sources, an expansion with all four kinds of record among them,
\* have been built
C6_Witness ==
    /\ pc = "built"
    /\ Len(inputs) = 2
    /\ \E k \in 1..2 : inputs[k] = SrcA3b
    /\ \E k \in 1..2 : inputs[k] = SrcRules
    /\ Len(docs) = 7

\* a structured source that cannot be read as a mapping of record lists
Malformed(src) == IsJson(src) /\ src.kind # "mapping"

OwnDocument(md, q) ==
    /\ MdGet(md, "doc_type", ABSENT) = "card"
    /\ q.expansion # NONE
    /\ Lower(MdGet(md, "name", "")) = Lower(q.target_card_name)
    /\ Lower(MdGet(md, "expansion", ABSENT)) = Lower(q.expansion)

\* C7: with the default filter, no survivor is the queried card's own
\* document, and every other card or guide node of the queried expansion
\* survives, in retrieved order.
C7_OwnDocumentExcluded ==
    (pc = "filtered" /\ node_postprocessor = NONE) =>
        /\ \A k \in IndicesOf(survivors) : ~OwnDocument(survivors[k].md, query)
        /\ \A j, k \in IndicesOf(survivors) :
             j < k => survivors[j].rank < survivors[k].rank
        /\ \A k \in IndicesOf(nodes) :
             ( /\ ~OwnDocument(nodes[k].md, query)
               /\ \/ MdGet(nodes[k].md, "doc_type", ABSENT) = "guide"
                  \/ /\ MdGet(nodes[k].md, "doc_type", ABSENT) = "card"
                     /\ MdGet(nodes[k].md, "expansion", ABSENT) = query.expansion )
             => nodes[k] \in RangeOf(survivors)


\* ------------------------------------------------------------------------
\* Claims about _slug
\* ------------------------------------------------------------------------
\* runs of [a-z0-9] separated by single hyphens, no hyphen at either end
SlugShaped(s) ==
    /\ \A k \in 1..Len(s) : s[k] \in SlugAlnum \cup {"-"}
    /\ \A k \in 1..Len(s) :
         s[k] = "-" => /\ 1 < k /\ k < Len(s)
                          /\ s[k - 1] # "-"

\* C11: _slug is idempotent, _slug(_slug(s)) = _slug(s) for every string s,
\* and its result holds only runs of [a-z0-9] separated by single hyphens,
\* with no hyphen at its start or its end.
C11_SlugIdempotent ==
    /\ pc \in {"slugged", "reslugged"} => SlugShaped(slug_once)
    /\ pc = "reslugged" => slug_twice = slug_once

\* a string with an upper-case letter whose lower-case form holds a run of
\* two characters outside [a-z0-9], and a hyphen left in the result
C11_Witness ==
    LET low == StrLower(slug_input)
    IN  /\ pc = "reslugged"
        /\ low # slug_input
        /\ \E k \in 1..(Len(low) - 1) :
              low[k] \notin SlugAlnum /\ low[k + 1] \notin SlugAlnum
        /\ "-" \in { slug_once[k] : k \in 1..Len(slug_once) }
        /\ slug_twice = slug_once

\* ------------------------------------------------------------------------
\* The length of a base walk
\* ------------------------------------------------------------------------
\* C12: for every list of creature records and every starting name, the
\* base walk makes at most as many iterations (each one looks up the
\* current name) as the list has records.
C12_WalkWithinRecords ==
    pc = "walk" => walk.steps <= Len(pokemon_list)

\* ------------------------------------------------------------------------
\* The storage directory after a run of the builder
\* ------------------------------------------------------------------------
\* what a reader keeps of a document: doc_loader gives every document an
\* identifier of its own
ContentOf(d) == [text |-> d.text, metadata |-> d.metadata]

\* how many documents of ds have the content c
Copies(ds, c) == Cardinality({ k \in 1..Len(ds) : ContentOf(ds[k]) = c })

\* C13: after one run of the builder into a storage directory that was
\* empty (save_jsonl and, with --per-expansion, save_per_expansion),
\* load_storage_dir yields every built document exactly once, and the
\* combined file holds every built document, in order.
C13_EachDocumentOnce ==
    (pc = "dir_loaded" /\ files0 = <<>>) =>
        /\ loaded.ok
        /\ Len(loaded.docs) = Len(docs)
        /\ \A k \in 1..Len(docs) :
             Copies(loaded.docs, ContentOf(docs[k])) = Copies(docs, ContentOf(docs[k]))
        /\ load_jsonl(files[out_name], 0).docs = docs
====
